---- MODULE Spec2Model ----
(***************************************************************************)
(* Verification model of the menuFrontend mini-game discount ledger and    *)
(* game session (FullScreenDoodleJump / GuessTheWord / CabinetPage).       *)
(*                                                                         *)
(* Numbers.  A JavaScript number is a tagged value: Num(n), NaN; the       *)
(* values undefined and null are Undefined and Null.  Scores and points    *)
(* are fixed-point: the integer n of Num(n) counts ScoreUnit-ths of a      *)
(* point (the scroll score rate is 0.2 = 1/5 point per pixel), so that     *)
(* Math.floor is a real conversion.  Percentages are whole numbers.        *)
(* Time is counted in days; a Date is Date(d) or InvalidDate.              *)
(***************************************************************************)
EXTENDS Integers, Sequences, FiniteSets, TLC

\* ------------------------------------------------------------------ bounds
MaxNow == 9
MaxCalls == 3
MaxFrames == 3
MaxRuns == 2
MaxGuesses == 5
MaxCalcScore == 24
MaxPerPercent == 3
MaxSteps == 6
MaxInputs == 1

\* ------------------------------------------------------- program constants
ScoreUnit == 5

DISCOUNT_CONFIG ==
  [pointsPerPercent |-> 100, maxDiscount |-> 100, discountValidityDays |-> 7]

\* --------------------------------------------------------- JavaScript values
Num(n) == [t |-> "num", v |-> n]
NaN == [t |-> "nan", v |-> 0]
Undefined == [t |-> "undefined", v |-> 0]
Null == [t |-> "null", v |-> 0]

Date(d) == [t |-> "date", v |-> d]
InvalidDate == [t |-> "invalid", v |-> 0]

\* ECMAScript ToNumber on the values above.
ToNumber(x) ==
  IF x.t = "num" THEN x
  ELSE IF x.t = "null" THEN Num(0)
  ELSE NaN

\* a + b on numbers (operands coerced by ToNumber).
JsAdd(a, b) ==
  LET x == ToNumber(a)
      y == ToNumber(b)
  IN IF x.t = "num" /\ y.t = "num" THEN Num(x.v + y.v) ELSE NaN

\* a >= b : false as soon as an operand is NaN.
JsGe(a, b) ==
  LET x == ToNumber(a)
      y == ToNumber(b)
  IN x.t = "num" /\ y.t = "num" /\ x.v >= y.v

\* Math.floor(x) of a fixed-point number, still fixed-point.
MathFloor(x) ==
  LET n == ToNumber(x)
  IN IF n.t = "num" THEN Num((n.v \div ScoreUnit) * ScoreUnit) ELSE NaN

\* Math.floor(points / perPercent): fixed-point points to a whole percentage.
FloorDiv(points, perPercent) ==
  LET n == ToNumber(points)
  IN IF n.t = "num" THEN Num(n.v \div (ScoreUnit * perPercent)) ELSE NaN

\* Math.min(a, b): NaN if an operand is NaN.
MathMin(a, b) ==
  LET x == ToNumber(a)
      y == ToNumber(b)
  IN IF x.t = "num" /\ y.t = "num"
       THEN (IF x.v <= y.v THEN x ELSE y)
       ELSE NaN

\* date < now : false for an Invalid Date (its time value is NaN).
DateBefore(d, t) == d.t = "date" /\ d.v < t

\* ------------------------------------------------------------ DiscountData
\* DiscountData | null, as loadDiscount and updateDiscount hand it around.
Data(pe, dp, td, ex) ==
  [some |-> TRUE, pointsEarned |-> pe, discountPercent |-> dp,
   totalDiscount |-> td, expirationDate |-> ex]

NoData ==
  [some |-> FALSE, pointsEarned |-> Undefined, discountPercent |-> Undefined,
   totalDiscount |-> Undefined, expirationDate |-> InvalidDate]

\* ------------------------------------------- localStorage["user_discount"]
\* The stored text: no item, text that JSON.parse rejects, the text "null",
\* or the text of an object (a missing member is Undefined; the expiration
\* member is an ISO string Iso(d), a string that is no date, or missing).
Iso(d) == [t |-> "iso", v |-> d]
NotADate == [t |-> "str", v |-> 0]

Item(kind, pe, dp, td, ex) ==
  [kind |-> kind, pointsEarned |-> pe, discountPercent |-> dp,
   totalDiscount |-> td, expirationDate |-> ex]

NoItem == Item("none", Undefined, Undefined, Undefined, Undefined)
Unparseable == Item("garbage", Undefined, Undefined, Undefined, Undefined)
JsonNull == Item("null", Undefined, Undefined, Undefined, Undefined)
JsonObject(pe, dp, td, ex) == Item("object", pe, dp, td, ex)

\* JSON.stringify of one member: NaN becomes null, an Invalid Date null,
\* a Date its ISO string, undefined is left out.
JsonNumber(x) == IF x.t = "nan" THEN Null ELSE x

JsonDate(d) == IF d.t = "date" THEN Iso(d.v) ELSE Null

\* new Date(member) as loadDiscount applies it to the parsed member.
NewDate(m) == IF m.t = "iso" THEN Date(m.v) ELSE InvalidDate

\* loadDiscount: null when there is no item or when the try block throws
\* (JSON.parse rejects the text, or the text is "null" and reading
\* data.expirationDate throws); otherwise the parsed members with
\* expirationDate turned into a Date.
loadDiscount(item) ==
  IF item.kind = "object"
    THEN Data(item.pointsEarned, item.discountPercent, item.totalDiscount,
              NewDate(item.expirationDate))
    ELSE NoData

\* saveDiscount: the item becomes JSON.stringify(discount).
saveDiscount(d) ==
  JsonObject(JsonNumber(d.pointsEarned), JsonNumber(d.discountPercent),
             JsonNumber(d.totalDiscount), JsonDate(d.expirationDate))

\* calculateDiscount with the Math.min against maxDiscount left out.
calculateDiscountUncapped(score, config, t) ==
  LET pointsEarned == MathFloor(score)
      discountPercent == FloorDiv(pointsEarned, config.pointsPerPercent)
  IN Data(pointsEarned, discountPercent, discountPercent,
          Date(t + config.discountValidityDays))

\* calculateDiscount with Math.round for Math.floor.
calculateDiscountRounds(score, config, t) ==
  LET pointsEarned ==
        Num(((ToNumber(score).v * 2 + ScoreUnit) \div (2 * ScoreUnit)) * ScoreUnit)
      discountPercent ==
        MathMin(FloorDiv(pointsEarned, config.pointsPerPercent),
                Num(config.maxDiscount))
  IN Data(pointsEarned, discountPercent, discountPercent,
          Date(t + config.discountValidityDays))

\* calculateDiscount(score, config), evaluated at time t.
calculateDiscount(score, config, t) ==
  LET pointsEarned == MathFloor(score)
      discountPercent ==
        MathMin(FloorDiv(pointsEarned, config.pointsPerPercent),
                Num(config.maxDiscount))
  IN Data(pointsEarned, discountPercent, discountPercent,
          Date(t + config.discountValidityDays))

\* The merge branch with "totalPoints = newPoints" for "totalPoints += newPoints".
MergeDiscountOverwrites(existing, newPoints, source, t) ==
  LET totalPoints ==
        IF source = "jump" THEN ToNumber(newPoints)
        ELSE existing.pointsEarned
      totalDiscount ==
        IF source = "jump"
          THEN MathMin(FloorDiv(totalPoints, DISCOUNT_CONFIG.pointsPerPercent),
                       Num(DISCOUNT_CONFIG.maxDiscount))
          ELSE MathMin(JsAdd(existing.totalDiscount, Num(5)),
                       Num(DISCOUNT_CONFIG.maxDiscount))
  IN Data(totalPoints, totalDiscount, totalDiscount,
          Date(t + DISCOUNT_CONFIG.discountValidityDays))

\* The merge branch without "Extend expiration": the date found is kept.
MergeDiscountKeepsExpiration(existing, newPoints, source, t) ==
  LET totalPoints ==
        IF source = "jump" THEN JsAdd(existing.pointsEarned, newPoints)
        ELSE existing.pointsEarned
      totalDiscount ==
        IF source = "jump"
          THEN MathMin(FloorDiv(totalPoints, DISCOUNT_CONFIG.pointsPerPercent),
                       Num(DISCOUNT_CONFIG.maxDiscount))
          ELSE MathMin(JsAdd(existing.totalDiscount, Num(5)),
                       Num(DISCOUNT_CONFIG.maxDiscount))
  IN Data(totalPoints, totalDiscount, totalDiscount,
          existing.expirationDate)

\* The merge branch of updateDiscount.
MergeDiscount(existing, newPoints, source, t) ==
  LET totalPoints ==
        IF source = "jump" THEN JsAdd(existing.pointsEarned, newPoints)
        ELSE existing.pointsEarned
      totalDiscount ==
        IF source = "jump"
          THEN MathMin(FloorDiv(totalPoints, DISCOUNT_CONFIG.pointsPerPercent),
                       Num(DISCOUNT_CONFIG.maxDiscount))
          ELSE MathMin(JsAdd(existing.totalDiscount, Num(5)),
                       Num(DISCOUNT_CONFIG.maxDiscount))
  IN Data(totalPoints, totalDiscount, totalDiscount,
          Date(t + DISCOUNT_CONFIG.discountValidityDays))

\* updateDiscount without the "already max" early return.
updateDiscountNoLock(item, newPoints, source, t) ==
  LET existing == loadDiscount(item)
      fresh == calculateDiscount(newPoints, DISCOUNT_CONFIG, t)
      updated == MergeDiscount(existing, newPoints, source, t)
  IN IF existing.some /\ DateBefore(existing.expirationDate, t)
       THEN [ret |-> fresh, item |-> saveDiscount(fresh)]
     ELSE IF ~existing.some
       THEN [ret |-> fresh, item |-> saveDiscount(fresh)]
     ELSE [ret |-> updated, item |-> saveDiscount(updated)]

\* updateDiscount with the "already max" test made before the expiry test.
updateDiscountLockFirst(item, newPoints, source, t) ==
  LET existing == loadDiscount(item)
      fresh == calculateDiscount(newPoints, DISCOUNT_CONFIG, t)
      updated == MergeDiscount(existing, newPoints, source, t)
  IN IF existing.some
          /\ JsGe(existing.totalDiscount, Num(DISCOUNT_CONFIG.maxDiscount))
       THEN [ret |-> existing, item |-> item]
     ELSE IF existing.some /\ DateBefore(existing.expirationDate, t)
       THEN [ret |-> fresh, item |-> saveDiscount(fresh)]
     ELSE IF ~existing.some
       THEN [ret |-> fresh, item |-> saveDiscount(fresh)]
     ELSE [ret |-> updated, item |-> saveDiscount(updated)]

\* updateDiscount(newPoints, source) at time t on the stored item:
\* the record it returns and the item it leaves in storage.
updateDiscount(item, newPoints, source, t) ==
  LET existing == loadDiscount(item)
      fresh == calculateDiscount(newPoints, DISCOUNT_CONFIG, t)
      updated == MergeDiscount(existing, newPoints, source, t)
  IN IF existing.some /\ DateBefore(existing.expirationDate, t)
       THEN [ret |-> fresh, item |-> saveDiscount(fresh)]
     ELSE IF ~existing.some
       THEN [ret |-> fresh, item |-> saveDiscount(fresh)]
     ELSE IF JsGe(existing.totalDiscount, Num(DISCOUNT_CONFIG.maxDiscount))
       THEN [ret |-> existing, item |-> item]
     ELSE [ret |-> updated, item |-> saveDiscount(updated)]

\* =================================================================== state
VARIABLES
  now,            \* the clock (new Date()), in days
  store,          \* localStorage["user_discount"]
  last,           \* the most recent updateDiscount call: arguments, the item
                  \* it found, the time, and the record it returned
  capRet,         \* the record returned by the call that reached the cap,
                  \* while the stored record stays locked by it
  chain,          \* the 'jump' calls made since the record was Empty, with
                  \* no expiry and no cap in between: the sum of their points
  calls,          \* number of updateDiscount calls made so far
  mounted,        \* FullScreenDoodleJump is mounted (GamesPage showGame)
  isRunning,      \* React state isRunning
  gameOver,       \* React state gameOver
  discountInfo,   \* React state discountInfo (DiscountData | null)
  s,              \* stateRef.current: the world of the current run
  animationRef,   \* animationRef.current: "null", "pending" (it names a
                  \* scheduled frame callback) or "spent" (the callback it
                  \* names has run or was cancelled)
  orphans,        \* scheduled frame callbacks that animationRef no longer names
  isMobile,       \* React state isMobile
  frames,         \* gameLoop steps taken on the current world; in the
                  \* endless climb, the parity of the display refreshes
  runCalls,       \* updateDiscount calls made for the current world
  props,          \* the props FullScreenDoodleJump was mounted with: whether
                  \* an onGameOver callback was passed
  ended,          \* the termination checks of the current world: what the
                  \* last one saw, how often the game-over branch ran, the
                  \* onGameOver calls it made and the step it ran in
  exited,         \* the last onExit: the state it was made in and the
                  \* stored item it found
  auth,           \* AuthProvider state
  users,          \* localStorage["menu_frontend_users_v1"]
  earners,        \* the users whose addDiscountPercent calls made
                  \* auth.discount what it is
  calcIn,         \* arguments of calculateDiscount under test
  calcOut,        \* its results
  guessGame,      \* GuessTheWord: whether it is mounted, and its React
                  \* state gameState, hasGuessedCorrectly and
                  \* hasAlreadyPlayedToday
  guessPlayed,    \* the days d with localStorage["guessGamePlayed_" + d]
  guessLog,       \* the last day a guess was taken on, and the guesses
                  \* taken on that day
  w,              \* stateRef.current in full: player, platforms, power-ups
  probe,          \* what the last gameLoop step saw at its collision tests
                  \* and at its termination check
  steps,          \* gameLoop steps taken on w
  inputs,         \* key and pointer events handled so far
  event           \* the last key or pointer event handled on w: its kind,
                  \* its key or direction, and the two flags it found

ledgerVars == <<store, last, capRet, chain, calls>>

gameVars ==
  <<mounted, isRunning, gameOver, discountInfo, s, animationRef, orphans,
    isMobile, frames, runCalls, props, ended, exited>>

authVars == <<auth, users, earners>>

calcVars == <<calcIn, calcOut>>

guessVars == <<guessGame, guessPlayed, guessLog>>

engineVars == <<w, probe, steps, inputs, event>>

vars ==
  <<now, ledgerVars, gameVars, authVars, calcVars, guessVars, engineVars>>

NoCall ==
  [source |-> "none", points |-> Undefined, pre |-> NoItem, at |-> 0,
   ret |-> NoData]

NoChain == [active |-> FALSE, sum |-> 0]

\* The stored record is unexpired and already at the cap at time t: the
\* case in which updateDiscount returns it unchanged.
Locked(item, t) ==
  LET existing == loadDiscount(item)
  IN /\ existing.some
     /\ ~DateBefore(existing.expirationDate, t)
     /\ JsGe(existing.totalDiscount, Num(DISCOUNT_CONFIG.maxDiscount))

\* The stored record exists and its expiration lies before t.
Expired(item, t) ==
  LET existing == loadDiscount(item)
  IN existing.some /\ DateBefore(existing.expirationDate, t)

\* One updateDiscount(newPoints, source) call now, with its bookkeeping.
Credit(newPoints, source) ==
  LET r == updateDiscount(store, newPoints, source, now)
      capped == r.ret.some
                /\ JsGe(r.ret.totalDiscount, Num(DISCOUNT_CONFIG.maxDiscount))
      floored == MathFloor(newPoints)
  IN /\ store' = r.item
     /\ last' = [source |-> source, points |-> newPoints, pre |-> store,
                 at |-> now, ret |-> r.ret]
     /\ capRet' = IF Locked(store, now) THEN capRet
                  ELSE IF capped THEN r.ret
                  ELSE NoData
     /\ chain' = IF source = "jump" /\ store = NoItem
                   THEN [active |-> TRUE, sum |-> floored.v]
                 ELSE IF /\ source = "jump"
                         /\ chain.active
                         /\ ~Expired(store, now)
                         /\ ~Locked(store, now)
                   THEN [active |-> TRUE, sum |-> chain.sum + floored.v]
                 ELSE NoChain
     /\ calls' = calls + 1

\* ------------------------------------------------------------ initial state
\* resetState: the world of a new run (the fields the session reads).
resetState ==
  [score |-> 0, isDead |-> FALSE, hasShield |-> FALSE, isInvincible |-> FALSE]

NoUser == [username |-> "", email |-> ""]

\* loadState with no item under LOCAL_KEY.
LoggedOut ==
  [user |-> NoUser, token |-> FALSE,
   discount |-> [amount |-> Num(0), expiresAt |-> Null]]

NoCalc == [lo |-> 0, hi |-> 0, config |-> DISCOUNT_CONFIG]

NoResult == [done |-> FALSE, lo |-> NoData, hi |-> NoData]

LedgerIdle ==
  /\ last = NoCall
  /\ capRet = NoData
  /\ chain = NoChain
  /\ calls = 0

NoProps == [onGameOver |-> FALSE]

NoEnd ==
  [below |-> FALSE, shield |-> FALSE, count |-> 0, calls |-> 0,
   score |-> Undefined, frame |-> 0]

NoExit == [from |-> "none", score |-> 0, store |-> NoItem]

GameIdle ==
  /\ mounted = FALSE
  /\ isRunning = FALSE
  /\ gameOver = FALSE
  /\ discountInfo = NoData
  /\ s = resetState
  /\ animationRef = "null"
  /\ orphans = 0
  /\ isMobile = FALSE
  /\ frames = 0
  /\ runCalls = 0
  /\ props = NoProps
  /\ ended = NoEnd
  /\ exited = NoExit

AuthIdle ==
  /\ auth = LoggedOut
  /\ users = {}
  /\ earners = {}

CalcIdle ==
  /\ calcIn = NoCalc
  /\ calcOut = NoResult

\* GuessTheWord is not mounted.
NoGuessGame ==
  [open |-> FALSE, attemptsRemaining |-> 0, gameDate |-> 0,
   hasGuessedCorrectly |-> FALSE, hasAlreadyPlayedToday |-> FALSE]

NoGuesses == [day |-> 0, count |-> 0]

GuessIdle ==
  /\ guessGame = NoGuessGame
  /\ guessPlayed = {}
  /\ guessLog = NoGuesses

\* No world under simulation.
NoWorld == [W |-> 0, H |-> 0]

NoProbe == [stepped |-> FALSE]

NoEvent == [kind |-> "none", arg |-> "", left |-> FALSE, right |-> FALSE]

EngineIdle ==
  /\ w = NoWorld
  /\ probe = NoProbe
  /\ steps = 0
  /\ inputs = 0
  /\ event = NoEvent

Init ==
  /\ now = 0
  /\ store = NoItem
  /\ LedgerIdle
  /\ GameIdle
  /\ AuthIdle
  /\ CalcIdle
  /\ GuessIdle
  /\ EngineIdle

\* the score handed on without Math.floor
finalScoreRaw(score) == Num(score)

\* the final score the game-over branch credits: Math.floor(s.score)
finalScore(score) == MathFloor(Num(score))

\* ------------------------------------------------------- ledger protocol
\* Final scores of a run, in ScoreUnit-ths of a point.
FinalScores == {0, 752, 1253, 1500, 49500, 50501}

\* The game-over branch of gameLoop seen from the ledger:
\* updateDiscount(finalScore, 'jump').
GameOverCredit(score) ==
  /\ calls < MaxCalls
  /\ Credit(finalScore(score), "jump")
  /\ UNCHANGED <<now, gameVars, authVars, calcVars, guessVars, engineVars>>

\* calculateGuessDiscount(true): updateDiscount(0, 'guess').
calculateGuessDiscount ==
  /\ calls < MaxCalls
  /\ Credit(Num(0), "guess")
  /\ UNCHANGED <<now, gameVars, authVars, calcVars, guessVars, engineVars>>

\* Time passes: days go by.
Tick(days) ==
  /\ now + days <= MaxNow
  /\ now' = now + days
  /\ UNCHANGED <<ledgerVars, gameVars, authVars, calcVars, guessVars, engineVars>>

Next ==
  \/ \E score \in FinalScores : GameOverCredit(score)
  \/ calculateGuessDiscount
  \/ Tick(1)

Spec == Init /\ [][Next]_vars

\* ============================================================ game session
\* What one gameLoop step adds to s.score: nothing, one pixel of scroll
\* (0.2 point), or a landing on a bouncy platform with a power-up picked
\* up in the same step (5 + 3 + 20 points).
FrameGains == {0, 1, 28 * ScoreUnit}

\* requestAnimationFrame(gameLoop) stored into animationRef.current: the
\* callback the ref named before, if still scheduled, stays scheduled.
Schedule(ref, orph) ==
  [ref |-> "pending", orphans |-> IF ref = "pending" THEN orph + 1 ELSE orph]

\* if (animationRef.current) cancelAnimationFrame(animationRef.current)
Cancel(ref) == IF ref = "pending" THEN "spent" ELSE ref

\* The end of a step without the return of the game-over branch.
EndOfStepNoReturn(dead, ref, orph) == Schedule(ref, orph)

\* The end of a gameLoop step: the game-over branch clears animationRef and
\* returns, every other step requests the next frame.
EndOfStep(dead, ref, orph) ==
  IF dead THEN [ref |-> "null", orphans |-> orph] ELSE Schedule(ref, orph)

\* "Check game over with shield protection" as the session sees it: what the
\* check found and, in the game-over branch, the onGameOver(finalScore) call
\* made if the callback was passed.
TerminationCheck(e, below, shield, pr, final, frame) ==
  IF below /\ ~shield
    THEN [below |-> below, shield |-> shield, count |-> e.count + 1,
          calls |-> IF pr.onGameOver THEN e.calls + 1 ELSE e.calls,
          score |-> IF pr.onGameOver THEN final ELSE e.score,
          frame |-> frame]
    ELSE [e EXCEPT !.below = below, !.shield = shield]

\* FullScreenDoodleJump mounts: fresh component state, the mount effects
\* load the stored discount into discountInfo and build the first world.
\* GamesPage hands its own onGameOver prop on, which its parent may not pass.
Mount ==
  /\ ~mounted
  /\ mounted' = TRUE
  /\ props' \in {[onGameOver |-> given] : given \in BOOLEAN}
  /\ ended' = NoEnd
  /\ exited' = NoExit
  /\ isRunning' = FALSE
  /\ gameOver' = FALSE
  /\ discountInfo' = loadDiscount(store)
  /\ s' = resetState
  /\ animationRef' = "null"
  /\ orphans' = 0
  /\ isMobile' = FALSE
  /\ frames' = 0
  /\ runCalls' = 0
  /\ UNCHANGED <<now, ledgerVars, authVars, calcVars, guessVars, engineVars>>

\* An onExit that credits the score of the run it abandons.
ExitSavesScore ==
  /\ mounted
  /\ mounted' = FALSE
  /\ props' = NoProps
  /\ ended' = NoEnd
  /\ exited' = [from |-> IF isRunning THEN "running"
                         ELSE IF gameOver THEN "gameOver" ELSE "idle",
                score |-> s.score, store |-> store]
  /\ isRunning' = FALSE
  /\ gameOver' = FALSE
  /\ discountInfo' = NoData
  /\ s' = resetState
  /\ animationRef' = "null"
  /\ orphans' = 0
  /\ isMobile' = FALSE
  /\ frames' = 0
  /\ runCalls' = 0
  /\ Credit(finalScore(s.score), "jump")
  /\ UNCHANGED <<now, authVars, calcVars, guessVars, engineVars>>

\* onExit (Back / Back to Menu): the component unmounts; the cleanup of the
\* resize effect cancels the callback animationRef names.  Callbacks of the
\* unmounted component return at "if (!canvas) return".
Exit ==
  /\ mounted
  /\ mounted' = FALSE
  /\ props' = NoProps
  /\ ended' = NoEnd
  /\ exited' = [from |-> IF isRunning THEN "running"
                         ELSE IF gameOver THEN "gameOver" ELSE "idle",
                score |-> s.score, store |-> store]
  /\ isRunning' = FALSE
  /\ gameOver' = FALSE
  /\ discountInfo' = NoData
  /\ s' = resetState
  /\ animationRef' = "null"
  /\ orphans' = 0
  /\ isMobile' = FALSE
  /\ frames' = 0
  /\ runCalls' = 0
  /\ UNCHANGED <<now, ledgerVars, authVars, calcVars, guessVars, engineVars>>

\* startGame reached without the tests of isRunning.
startGameUnguarded(via) ==
  /\ mounted
  /\ via = "canvas" => ~gameOver
  /\ calls < MaxRuns
  /\ s' = resetState
  /\ gameOver' = FALSE
  /\ isRunning' = TRUE
  /\ animationRef' = Schedule(animationRef, orphans).ref
  /\ orphans' = Schedule(animationRef, orphans).orphans
  /\ frames' = 0
  /\ runCalls' = 0
  /\ ended' = NoEnd
  /\ UNCHANGED <<now, ledgerVars, mounted, discountInfo, isMobile, props,
                 exited, authVars, calcVars, guessVars, engineVars>>

\* startGame, reached from the Start Game / Play Again button (rendered
\* when !isRunning), the space key (if !isRunning) or a click on the canvas
\* (if !isRunning && !gameOver).
startGame(via) ==
  /\ mounted
  /\ ~isRunning
  /\ via = "canvas" => ~gameOver
  /\ calls < MaxRuns
  /\ s' = resetState
  /\ gameOver' = FALSE
  /\ isRunning' = TRUE
  /\ animationRef' = Schedule(animationRef, orphans).ref
  /\ orphans' = Schedule(animationRef, orphans).orphans
  /\ frames' = 0
  /\ runCalls' = 0
  /\ ended' = NoEnd
  /\ UNCHANGED <<now, ledgerVars, mounted, discountInfo, isMobile, props,
                 exited, authVars, calcVars, guessVars, engineVars>>

\* A window resize that crosses the 768px breakpoint: isMobile flips,
\* resizeCanvas is rebuilt, and the cleanup of the effect that depends on it
\* cancels the callback animationRef names.
Resize ==
  /\ mounted
  /\ isMobile' = ~isMobile
  /\ animationRef' = Cancel(animationRef)
  /\ UNCHANGED <<now, ledgerVars, mounted, isRunning, gameOver, discountInfo,
                 s, orphans, frames, runCalls, props, ended, exited, authVars,
                 calcVars, guessVars, engineVars>>

\* One run of the gameLoop callback.  The physics of the step is given by
\* its outcome: gain is what it adds to s.score, shield is p.hasShield when
\* the termination check is reached, below is p.y > s.H + 60 there.  byRef
\* tells whether the callback that runs is the one animationRef names.
gameLoop(gain, shield, below, byRef) ==
  /\ mounted
  /\ IF byRef THEN animationRef = "pending" ELSE orphans > 0
  /\ (~below \/ shield) => frames < MaxFrames
  /\ LET ref == IF byRef THEN "spent" ELSE animationRef
         orph == IF byRef THEN orphans ELSE orphans - 1
         score == s.score + gain
         dead == below /\ ~shield
     IN /\ animationRef' = EndOfStep(dead, ref, orph).ref
        /\ orphans' = EndOfStep(dead, ref, orph).orphans
        /\ ended' = TerminationCheck(ended, below, shield, props,
                                     finalScore(score), frames + 1)
        /\ frames' = frames + 1
        /\ IF dead
             THEN \* game over
               /\ s' = [s EXCEPT !.score = score, !.isDead = TRUE,
                                 !.hasShield = FALSE]
               /\ isRunning' = FALSE
               /\ gameOver' = TRUE
               /\ Credit(finalScore(score), "jump")
               /\ discountInfo' = updateDiscount(store, finalScore(score),
                                                 "jump", now).ret
               /\ runCalls' = runCalls + 1
             ELSE
               /\ s' = IF below
                         THEN [s EXCEPT !.score = score, !.hasShield = FALSE,
                                        !.isInvincible = TRUE]
                         ELSE [s EXCEPT !.score = score, !.hasShield = shield]
               /\ UNCHANGED <<ledgerVars, isRunning, gameOver, discountInfo,
                              runCalls>>
  /\ UNCHANGED <<now, mounted, isMobile, props, exited, authVars, calcVars, guessVars,
                 engineVars>>

\* loadState with the state of a signed-up user under LOCAL_KEY.
LoggedIn(username) ==
  [user |-> [username |-> username, email |-> username], token |-> TRUE,
   discount |-> [amount |-> Num(0), expiresAt |-> Null]]

\* The session of a user who is logged in (the cabinet is a protected route).
SessionInit ==
  /\ now = 0
  /\ store = NoItem
  /\ LedgerIdle
  /\ GameIdle
  /\ auth = LoggedIn("alice")
  /\ users = {"alice"}
  /\ earners = {}
  /\ CalcIdle
  /\ GuessIdle
  /\ EngineIdle

SessionNext ==
  \/ Mount
  \/ Exit
  \/ \E via \in {"button", "space", "canvas"} : startGame(via)
  \/ Resize
  \/ \E gain \in FrameGains, shield, below, byRef \in BOOLEAN :
       gameLoop(gain, shield, below, byRef)
  \/ Tick(DISCOUNT_CONFIG.discountValidityDays + 1)

SpecSession == SessionInit /\ [][SessionNext]_vars

\* ======================================================= simulation engine
\* Lengths and speeds count PxUnit-ths of a pixel (the smallest step of the
\* source is the jetpack gravity 0.25 * 0.3 = 3/40 pixel per frame), times
\* count frames (the source subtracts 1/60 second per frame), and the score
\* of a world counts (ScoreUnit * PxUnit)-ths of a point, a scrolled length
\* unit being worth 0.2 / PxUnit point.
PxUnit == 40

FrameRate == 60

Px(n) == n * PxUnit

Sec(n) == n * FrameRate

Pts(n) == n * ScoreUnit * PxUnit

\* canvas.clientWidth || 420, canvas.clientHeight || 600: the canvas of a
\* 420 x 560 window in the mobile layout.
clientWidth == 420

clientHeight == 560

platformCount == 15

playerSize == Px(80)

platformHeight == Px(16)

powerUpSize == Px(30)

gravity == Px(1) \div 4

Max2(a, b) == IF a >= b THEN a ELSE b

\* The element of a one-element set.
Only(S) == CHOOSE x \in S : TRUE

Min2(a, b) == IF a <= b THEN a ELSE b

\* x * 0.85, rounded toward zero to the length unit.
Damp(x) == IF x >= 0 THEN (x * 17) \div 20 ELSE -(((-x) * 17) \div 20)

\* The random numbers resetState draws for platform i, per layout: the
\* width, the type, the two flags, the drift, the power-up mark and x.
InitialDraw(layout, i) ==
  IF layout = "plain"
    THEN [pw |-> Px(60), type |-> 1, breakable |-> FALSE,
          disappearing |-> FALSE, vx |-> 0, hasPowerUp |-> FALSE,
          x |-> Px((i * 97) % (clientWidth - 60))]
    ELSE [pw |-> Px(70), type |-> (i % 5) + 1, breakable |-> TRUE,
          disappearing |-> TRUE,
          vx |-> IF i % 5 = 1 THEN Px(3) \div 2 ELSE 0,
          hasPowerUp |-> (i % 2 = 1),
          x |-> Px((i * 53) % (clientWidth - 70))]

Layouts == {"plain", "mixed"}

\* resetState: the player of a new world.
NewPlayer(W, H) ==
  [x |-> W \div 2 - Px(27), y |-> H - Px(220), vx |-> 0, vy |-> Px(8),
   isMovingLeft |-> FALSE, isMovingRight |-> FALSE, isDead |-> FALSE,
   hasJetpack |-> FALSE, jetpackFuel |-> 0, hasShield |-> FALSE,
   shieldTimer |-> 0, rocketBoost |-> 0, isInvincible |-> FALSE,
   invincibleTimer |-> 0]

\* resetState: the platforms of a new world, the 15 drawn ones and then the
\* start platform beneath the player.
NewPlatforms(W, H, layout) ==
  LET p == NewPlayer(W, H)
      drawn(i) ==
        LET d == InitialDraw(layout, i)
        IN [x |-> d.x, y |-> Px(30) + i * (H \div (platformCount - 1)),
            width |-> d.pw, vx |-> d.vx, type |-> d.type,
            isBreakable |-> (d.type = 4 /\ d.breakable),
            isDisappearing |-> (d.type = 5 /\ d.disappearing),
            disappearTimer |-> 0, hasPowerUp |-> d.hasPowerUp]
      startPlatform ==
        [x |-> Max2(Px(10), p.x - Px(10)), y |-> p.y + playerSize + Px(8),
         width |-> Px(80), vx |-> 0, type |-> 1, isBreakable |-> FALSE,
         isDisappearing |-> FALSE, disappearTimer |-> 0,
         hasPowerUp |-> FALSE]
  IN [i \in 1 .. platformCount + 1 |->
        IF i <= platformCount THEN drawn(i - 1) ELSE startPlatform]

\* resetState: stateRef.current of a new run.
GameState(layout) ==
  LET W == Px(clientWidth)
      H == Px(clientHeight)
  IN [W |-> W, H |-> H, player |-> NewPlayer(W, H),
      platforms |-> NewPlatforms(W, H, layout), powerUps |-> <<>>,
      scrollThreshold |-> (H * 36) \div 100, score |-> 0]

\* ------------------------------------------------ the phases of gameLoop
\* The power-ups aged one frame, with the spent ones kept in the list.
AgePowerUpsKeepsSpent(powerUps) ==
  [i \in 1 .. Len(powerUps) |-> [powerUps[i] EXCEPT !.activeTime = @ - 1]]

\* s.powerUps.filter: every power-up ages one frame, the spent ones go.
AgePowerUps(powerUps) ==
  LET aged == [i \in 1 .. Len(powerUps) |->
                 [powerUps[i] EXCEPT !.activeTime = @ - 1]]
  IN SelectSeq(aged, LAMBDA u : u.activeTime > 0)

\* The status update with the timers counted down and no flag cleared.
UpdateStatusKeepsFlags(p) ==
  LET p1 == IF p.hasShield THEN [p EXCEPT !.shieldTimer = @ - 1] ELSE p
      p2 == IF p1.isInvincible THEN [p1 EXCEPT !.invincibleTimer = @ - 1]
            ELSE p1
      p3 == IF p2.hasJetpack /\ p2.jetpackFuel > 0
              THEN [p2 EXCEPT !.vy = Max2(p2.vy - Px(1) \div 2, Px(-20)),
                              !.jetpackFuel = @ - 1]
              ELSE p2
  IN IF p3.rocketBoost > 0
       THEN [p3 EXCEPT !.vy = Px(-18), !.rocketBoost = @ - 1]
       ELSE p3

\* Update shield, invincibility, jetpack and rocket boost.
UpdateStatus(p) ==
  LET p1 == IF p.hasShield
              THEN [p EXCEPT !.shieldTimer = @ - 1,
                             !.hasShield = (p.shieldTimer - 1 > 0)]
              ELSE p
      p2 == IF p1.isInvincible
              THEN [p1 EXCEPT !.invincibleTimer = @ - 1,
                              !.isInvincible = (p1.invincibleTimer - 1 > 0)]
              ELSE p1
      p3 == IF p2.hasJetpack /\ p2.jetpackFuel > 0
              THEN [p2 EXCEPT !.vy = Max2(p2.vy - Px(1) \div 2, Px(-20)),
                              !.jetpackFuel = @ - 1,
                              !.hasJetpack = (p2.jetpackFuel - 1 > 0)]
              ELSE p2
  IN IF p3.rocketBoost > 0
       THEN [p3 EXCEPT !.vy = Px(-18), !.rocketBoost = @ - 1]
       ELSE p3

\* Horizontal movement with acceleration, before the wrap.
MoveHorizontal(p) ==
  LET vx == IF p.isMovingLeft THEN Max2(p.vx - Px(4) \div 5, Px(-10))
            ELSE IF p.isMovingRight THEN Min2(p.vx + Px(4) \div 5, Px(10))
            ELSE Damp(p.vx)
  IN [p EXCEPT !.vx = vx, !.x = p.x + vx]

\* The wrap with the right edge clamped instead of wrapped.
WrapClamps(p, W) ==
  LET p1 == IF p.x > W THEN [p EXCEPT !.x = W] ELSE p
  IN IF p1.x < -playerSize THEN [p1 EXCEPT !.x = W] ELSE p1

\* Wrap around screen.
Wrap(p, W) ==
  LET p1 == IF p.x > W THEN [p EXCEPT !.x = -playerSize] ELSE p
  IN IF p1.x < -playerSize THEN [p1 EXCEPT !.x = W] ELSE p1

\* Vertical movement with gravity.
MoveVertical(p) ==
  [p EXCEPT !.y = p.y + p.vy,
            !.vy = p.vy + (IF p.hasJetpack THEN (gravity * 3) \div 10
                           ELSE gravity)]

\* The scroll without its test: the distance to the threshold, signed.
ScrollOfSigned(p, threshold) == threshold - p.y

\* Scrolling: the length scrolled in this step (0 when the player is not
\* above the threshold).
ScrollOf(p, threshold) == IF p.y < threshold THEN threshold - p.y ELSE 0

\* The values Math.random() yields in one step, as the code uses them: the
\* power-up spawn test and type, and what a recycled platform becomes.
Draw(spawn, powerType, type) ==
  [spawn |-> spawn, powerType |-> powerType, type |-> type,
   isBreakable |-> (type = 4), isDisappearing |-> (type = 5),
   vx |-> IF type = 2 THEN Px(1) ELSE 0, width |-> Px(50 + 6 * type),
   half |-> (type % 2 = 0), y |-> Px(-20 - 10 * type),
   hasPowerUp |-> (type = 3)]

RandomDraws ==
  { Draw(FALSE, "shield", 1), Draw(TRUE, "shield", 4),
    Draw(TRUE, "jetpack", 5), Draw(TRUE, "spring", 2),
    Draw(TRUE, "rocket", 3) }

\* The platform has left the play field (pl.y = -1000).
Gone == Px(-1000)

\* p.x < pl.x + pl.width && p.x + p.width > pl.x
OverlapsX(p, pl) == p.x < pl.x + pl.width /\ p.x + playerSize > pl.x

\* The collision test without its "p.vy > 0" conjunct.
LandsOnAnyDirection(p, pl) ==
  /\ OverlapsX(p, pl)
  /\ p.y + playerSize > pl.y
  /\ p.y + playerSize < pl.y + platformHeight + Px(10)

\* Collision detection: the test of the if statement.
LandsOn(p, pl) ==
  /\ p.vy > 0
  /\ OverlapsX(p, pl)
  /\ p.y + playerSize > pl.y
  /\ p.y + playerSize < pl.y + platformHeight + Px(10)

\* The bottom edge of the player's box lies in [pl.y, pl.y + pl.height) and
\* the box overlaps the platform horizontally.
InRegion(p, pl) ==
  /\ OverlapsX(p, pl)
  /\ p.y + playerSize >= pl.y
  /\ p.y + playerSize < pl.y + platformHeight

\* The same with the bottom edge strictly below the platform's top edge.
InsideRegion(p, pl) ==
  /\ OverlapsX(p, pl)
  /\ p.y + playerSize > pl.y
  /\ p.y + playerSize < pl.y + platformHeight

\* The bounce with the sign of the velocity slipped.
BounceVelocitySignSlip(pl) == IF pl.type = 3 THEN Px(13) ELSE Px(10)

\* Platform-specific behavior: the velocity a landing gives the player.
BounceVelocity(pl) == IF pl.type = 3 THEN Px(-13) ELSE Px(-10)

\* The power-up pushed when a landing spawns one (picked records whether
\* the player has collected it).
SpawnedPowerUp(pl, type) ==
  [x |-> pl.x + pl.width \div 2 - Px(15), y |-> pl.y - Px(30), type |-> type,
   activeTime |-> IF type = "jetpack" THEN Sec(5)
                  ELSE IF type = "shield" THEN Sec(10) ELSE 0,
   picked |-> FALSE]

\* Recycle platforms: what a platform below the field becomes.
Recycled(pl, W, rnd) ==
  [x |-> IF rnd.half THEN (W - pl.width) \div 2 ELSE 0, y |-> rnd.y,
   width |-> rnd.width, vx |-> rnd.vx, type |-> rnd.type,
   isBreakable |-> rnd.isBreakable, isDisappearing |-> rnd.isDisappearing,
   disappearTimer |-> 0, hasPowerUp |-> rnd.hasPowerUp]

\* The body of "for (const pl of s.platforms)" for platform i, on the state
\* st the loop has reached: player, platforms, power-ups and score, and what
\* the collision tests saw so far.
PlatformBody(st, i, W, H, rnd) ==
  LET pl0 == st.platforms[i]
      timer == IF pl0.isDisappearing THEN pl0.disappearTimer + 1
               ELSE pl0.disappearTimer
      collapsed == pl0.isDisappearing /\ timer > Sec(1)
      x1 == IF pl0.vx /= 0 THEN pl0.x + pl0.vx ELSE pl0.x
      vx1 == IF pl0.vx /= 0 /\ (x1 < 0 \/ x1 + pl0.width > W) THEN -pl0.vx
             ELSE pl0.vx
      pl1 == [pl0 EXCEPT !.disappearTimer = timer, !.x = x1, !.vx = vx1]
      p == st.player
      lands == LandsOn(p, pl1)
      bouncy == pl1.type = 3
      breaks == ~bouncy /\ pl1.type = 4 /\ pl1.isBreakable
      fades == ~bouncy /\ ~breaks /\ pl1.type = 5 /\ pl1.isDisappearing
      pl2 == IF breaks THEN [pl1 EXCEPT !.y = Gone]
             ELSE IF fades THEN [pl1 EXCEPT !.disappearTimer = Sec(1) \div 10]
             ELSE pl1
      spawns == pl2.hasPowerUp /\ rnd.spawn
      pl3 == IF spawns THEN [pl2 EXCEPT !.hasPowerUp = FALSE] ELSE pl2
      pl4 == IF lands THEN pl3 ELSE pl1
      pl5 == IF pl4.y > H + Px(40) THEN Recycled(pl4, W, rnd) ELSE pl4
      seen == [st EXCEPT
                 !.inRegion = @ \/ InRegion(p, pl1),
                 !.inside = @ \/ InsideRegion(p, pl1),
                 !.recycled = IF pl4.y > H + Px(40) THEN @ + 1 ELSE @,
                 !.recycledAt = IF pl4.y > H + Px(40) THEN @ \cup {i} ELSE @]
  IN IF collapsed
       THEN [st EXCEPT !.platforms[i] =
                         [pl0 EXCEPT !.disappearTimer = timer, !.y = Gone],
                       !.collapsed = @ + 1]
     ELSE IF lands
       THEN [seen EXCEPT
               !.player.vy = BounceVelocity(pl1),
               !.score = @ + (IF bouncy THEN Pts(5) ELSE 0) + Pts(3),
               !.powerUps = IF spawns
                              THEN Append(@, SpawnedPowerUp(pl2, rnd.powerType))
                              ELSE @,
               !.platforms[i] = pl5,
               !.landings = @ + 1]
     ELSE [seen EXCEPT !.platforms[i] = pl5]

RECURSIVE PlatformLoopSplices(_, _, _, _, _)

\* The loop with a platform that left the field taken out of the array.
PlatformLoopSplices(st, i, W, H, rnd) ==
  IF i > Len(st.platforms) THEN st
  ELSE Only({ IF next.platforms[i].y = Gone
                THEN PlatformLoopSplices(
                       [next EXCEPT !.platforms =
                          SubSeq(@, 1, i - 1) \o SubSeq(@, i + 1, Len(@))],
                       i, W, H, rnd)
                ELSE PlatformLoopSplices(next, i + 1, W, H, rnd) :
              next \in {PlatformBody(st, i, W, H, rnd)} })

RECURSIVE PlatformLoop(_, _, _, _, _)

\* for (const pl of s.platforms) { ... }, from platform i on.
PlatformLoop(st, i, W, H, rnd) ==
  IF i > Len(st.platforms) THEN st
  ELSE Only({ PlatformLoop(next, i + 1, W, H, rnd) :
              next \in {PlatformBody(st, i, W, H, rnd)} })

\* Power-up collision: the test of the if statement.
Collects(p, u) ==
  /\ p.x < u.x + powerUpSize
  /\ p.x + playerSize > u.x
  /\ p.y < u.y + powerUpSize
  /\ p.y + playerSize > u.y

\* The effect of a collected power-up on the player.
Apply(p, type) ==
  IF type = "jetpack" THEN [p EXCEPT !.hasJetpack = TRUE, !.jetpackFuel = Sec(3)]
  ELSE IF type = "spring" THEN [p EXCEPT !.vy = Px(-20)]
  ELSE IF type = "rocket" THEN [p EXCEPT !.rocketBoost = Sec(1)]
  ELSE [p EXCEPT !.hasShield = TRUE, !.shieldTimer = Sec(10)]

RECURSIVE PowerUpLoop(_, _)

\* for (const powerUp of s.powerUps) { ... }, from power-up i on.
PowerUpLoop(st, i) ==
  IF i > Len(st.powerUps) THEN st
  ELSE Only({ PowerUpLoop(next, i + 1) :
              next \in { IF Collects(st.player, st.powerUps[i])
                           THEN [st EXCEPT
                                   !.player = Apply(@, st.powerUps[i].type),
                                   !.powerUps[i].activeTime = -Sec(1),
                                   !.powerUps[i].picked = TRUE,
                                   !.score = @ + Pts(20),
                                   !.pickups = @ + 1,
                                   !.repicks = IF st.powerUps[i].picked
                                                 THEN @ + 1 ELSE @]
                           ELSE st } })

\* The shield-save branch without the repositioning of the player.
ShieldSaveStaysBelow(p, H) ==
  [p EXCEPT !.hasShield = FALSE, !.vy = Px(-15), !.isInvincible = TRUE,
            !.invincibleTimer = Sec(2)]

\* The shield-save branch of the termination check.
ShieldSave(p, H) ==
  [p EXCEPT !.hasShield = FALSE, !.y = H - Px(100), !.vy = Px(-15),
            !.isInvincible = TRUE, !.invincibleTimer = Sec(2)]

\* gameLoop from its start to the scroll: the state the platform loop
\* starts from, with the player's x before the wrap.
Integrate(world) ==
  LET p1 == UpdateStatus(world.player)
      p2 == MoveHorizontal(p1)
      p3 == MoveVertical(Wrap(p2, world.W))
      scroll == ScrollOf(p3, world.scrollThreshold)
      aged == AgePowerUps(world.powerUps)
  IN [player |-> [p3 EXCEPT !.y = @ + scroll],
      platforms |-> [i \in 1 .. Len(world.platforms) |->
                       [world.platforms[i] EXCEPT !.y = @ + scroll]],
      powerUps |-> [i \in 1 .. Len(aged) |-> [aged[i] EXCEPT !.y = @ + scroll]],
      score |-> world.score + scroll,
      xMoved |-> p2.x, vyTest |-> p3.vy, scoreTest |-> world.score + scroll,
      inRegion |-> FALSE, inside |-> FALSE, landings |-> 0, vyLoop |-> p3.vy,
      scoreLoop |-> world.score + scroll, pickups |-> 0, recycled |-> 0,
      collapsed |-> 0, scroll |-> scroll, recycledAt |-> {},
      stale |-> Cardinality({i \in 1 .. Len(aged) : aged[i].picked}),
      repicks |-> 0]

\* The state as the platform loop leaves it.
AfterPlatforms(st) ==
  [st EXCEPT !.vyLoop = st.player.vy, !.scoreLoop = st.score]

\* Check game over with shield protection: the world the step leaves,
\* whether the run ended, and what the step saw on its way.
Conclude(world, st) ==
  LET p == st.player
      below == p.y > world.H + Px(60)
      saved == below /\ p.hasShield
      dead == below /\ ~p.hasShield
  IN [world |-> [world EXCEPT
                   !.player = IF saved THEN ShieldSave(p, world.H)
                              ELSE IF dead THEN [p EXCEPT !.isDead = TRUE]
                              ELSE p,
                   !.platforms = st.platforms,
                   !.powerUps = st.powerUps,
                   !.score = st.score],
      dead |-> dead,
      probe |-> [stepped |-> TRUE,
                 before |-> [player |-> world.player, score |-> world.score,
                             count |-> Len(world.platforms)],
                 xMoved |-> st.xMoved, vyTest |-> st.vyTest,
                 vyLoop |-> st.vyLoop, inRegion |-> st.inRegion,
                 inside |-> st.inside, landings |-> st.landings,
                 landingBonus |-> st.scoreLoop - st.scoreTest,
                 pickups |-> st.pickups, recycled |-> st.recycled,
                 collapsed |-> st.collapsed, scroll |-> st.scroll,
                 stale |-> st.stale, repicks |-> st.repicks,
                 timerDrops |->
                   {i \in 1 .. Len(st.platforms) :
                      /\ i \notin st.recycledAt
                      /\ st.platforms[i].disappearTimer
                           < world.platforms[i].disappearTimer},
                 below |-> below,
                 yAtCheck |-> p.y, shieldAtCheck |-> p.hasShield,
                 saved |-> saved, rescheduled |-> ~dead]]

\* gameLoop on the world with the random numbers rnd.
Advance(world, rnd) ==
  Only({ Only({ Only({ Conclude(world, c) : c \in {PowerUpLoop(b, 1)} }) :
                b \in {AfterPlatforms(
                         PlatformLoop(a, 1, world.W, world.H, rnd))} }) :
         a \in {Integrate(world)} })

\* The fields of the world the session reads.
Summary(world) ==
  [score |-> world.score \div PxUnit, isDead |-> world.player.isDead,
   hasShield |-> world.player.hasShield,
   isInvincible |-> world.player.isInvincible]

\* One run of the gameLoop callback on the world w, with its physics.
gameLoopStep(rnd) ==
  /\ mounted
  /\ animationRef = "pending"
  /\ steps < MaxSteps
  /\ \E r \in {Advance(w, rnd)} :
     LET final == finalScore(Summary(r.world).score)
     IN /\ w' = r.world
        /\ probe' = r.probe
        /\ steps' = steps + 1
        /\ s' = Summary(r.world)
        /\ animationRef' = EndOfStep(r.dead, "spent", orphans).ref
        /\ ended' = TerminationCheck(ended, r.probe.below,
                                     r.probe.shieldAtCheck, props, final,
                                     steps + 1)
        /\ IF r.dead
             THEN /\ isRunning' = FALSE
                  /\ gameOver' = TRUE
                  /\ Credit(final, "jump")
                  /\ discountInfo' = updateDiscount(store, final, "jump", now).ret
                  /\ runCalls' = runCalls + 1
             ELSE UNCHANGED <<ledgerVars, isRunning, gameOver, discountInfo,
                              runCalls>>
  /\ UNCHANGED <<now, mounted, orphans, isMobile, frames, props, exited,
                 authVars, calcVars, guessVars, inputs, event>>

\* startGame (Play Again or the space key after a game over) with the world
\* resetState builds: the random layout drawn is one of Layouts.
startGameWorld(layout) ==
  /\ mounted
  /\ ~isRunning
  /\ calls < MaxRuns
  /\ w' = GameState(layout)
  /\ probe' = NoProbe
  /\ steps' = 0
  /\ s' = resetState
  /\ gameOver' = FALSE
  /\ isRunning' = TRUE
  /\ animationRef' = Schedule(animationRef, orphans).ref
  /\ orphans' = Schedule(animationRef, orphans).orphans
  /\ frames' = 0
  /\ runCalls' = 0
  /\ ended' = NoEnd
  /\ UNCHANGED <<now, ledgerVars, mounted, discountInfo, isMobile, props,
                 exited, authVars, calcVars, guessVars, inputs>>
  /\ event' = NoEvent

\* The event record of a handler that ran on the player p.
Event(kind, arg, p) ==
  [kind |-> kind, arg |-> arg, left |-> p.isMovingLeft,
   right |-> p.isMovingRight]

\* handleKeyDown for the arrow keys.
handleKeyDown(key) ==
  /\ mounted
  /\ inputs < MaxInputs
  /\ w' = IF key = "ArrowLeft" THEN [w EXCEPT !.player.isMovingLeft = TRUE]
          ELSE [w EXCEPT !.player.isMovingRight = TRUE]
  /\ inputs' = inputs + 1
  /\ event' = Event("keydown", key, w.player)
  /\ UNCHANGED <<now, ledgerVars, gameVars, authVars, calcVars, guessVars, probe, steps>>

\* handleKeyUp for the arrow keys.
handleKeyUp(key) ==
  /\ mounted
  /\ inputs < MaxInputs
  /\ w' = IF key = "ArrowLeft" THEN [w EXCEPT !.player.isMovingLeft = FALSE]
          ELSE [w EXCEPT !.player.isMovingRight = FALSE]
  /\ inputs' = inputs + 1
  /\ event' = Event("keyup", key, w.player)
  /\ UNCHANGED <<now, ledgerVars, gameVars, authVars, calcVars, guessVars, probe, steps>>

\* handlePointerStart with the flag of the other side left as it is.
PointerStartKeepsOther(p, direction) ==
  IF direction = "left" THEN [p EXCEPT !.isMovingLeft = TRUE]
  ELSE [p EXCEPT !.isMovingRight = TRUE]

\* handlePointerStart: what it makes of the player.
PointerStart(p, direction) ==
  IF direction = "left"
    THEN [p EXCEPT !.isMovingLeft = TRUE, !.isMovingRight = FALSE]
    ELSE [p EXCEPT !.isMovingRight = TRUE, !.isMovingLeft = FALSE]

\* handlePointerStart (pointer down on the left or the right control).
handlePointerStart(direction) ==
  /\ mounted
  /\ inputs < MaxInputs
  /\ w' = [w EXCEPT !.player = PointerStart(@, direction)]
  /\ inputs' = inputs + 1
  /\ event' = Event("pointerdown", direction, w.player)
  /\ UNCHANGED <<now, ledgerVars, gameVars, authVars, calcVars, guessVars, probe, steps>>

\* handlePointerEnd (pointer up, or the pointer leaves the control).
handlePointerEnd ==
  /\ mounted
  /\ inputs < MaxInputs
  /\ w' = [w EXCEPT !.player.isMovingLeft = FALSE,
                    !.player.isMovingRight = FALSE]
  /\ inputs' = inputs + 1
  /\ event' = Event("pointerup", "", w.player)
  /\ UNCHANGED <<now, ledgerVars, gameVars, authVars, calcVars, guessVars, probe, steps>>

\* The player of world placed above platform k, falling onto it.
OverPlatform(world, k, gap, vy) ==
  [world EXCEPT !.player.x = world.platforms[k].x,
                !.player.y = world.platforms[k].y - playerSize - gap,
                !.player.vy = vy]

\* Worlds of a run: the two fresh ones, and worlds in mid-run (the player
\* about to leave the field on either side, below the field with and
\* without a shield, rising under rocket boost at the scroll threshold
\* past a platform about to collapse, and coming down on a bouncy, a
\* breakable, a disappearing and a collapsing platform, and on a
\* disappearing platform 0.7 second after the run began, as after the first
\* bounce of a run when such a platform hangs 190 pixels above the start,
\* and rising with a shield, the last of the jetpack fuel and the last
\* frames of invincibility).
Scenes ==
  LET plain == GameState("plain")
      mixed == GameState("mixed")
      fallen == [plain EXCEPT !.player.y = plain.H + Px(50),
                              !.player.vy = Px(12)]
  IN { plain, mixed,
       [plain EXCEPT !.player.x = plain.W - Px(2), !.player.vx = Px(10),
                     !.player.isMovingRight = TRUE, !.player.y = Px(300),
                     !.player.vy = Px(-5)],
       [plain EXCEPT !.player.x = Px(2) - playerSize, !.player.vx = Px(-10),
                     !.player.isMovingLeft = TRUE, !.player.y = Px(300),
                     !.player.vy = Px(-5)],
       fallen,
       [fallen EXCEPT !.player.hasShield = TRUE, !.player.shieldTimer = Sec(5)],
       [fallen EXCEPT !.player.hasShield = TRUE, !.player.shieldTimer = 1],
       [mixed EXCEPT !.player.y = mixed.scrollThreshold + Px(5),
                     !.player.vy = Px(-18), !.player.rocketBoost = Sec(1) \div 2,
                     !.platforms[10].disappearTimer = Sec(1) - 1],
       OverPlatform(mixed, 8, Px(3), Px(6)),
       OverPlatform(mixed, 9, Px(3), Px(6)),
       OverPlatform(mixed, 10, Px(3), Px(6)),
       OverPlatform([mixed EXCEPT !.platforms[10].disappearTimer = Sec(1)],
                    10, Px(3), Px(6)),
       OverPlatform([mixed EXCEPT
                       !.platforms[10].disappearTimer = (Sec(1) * 7) \div 10],
                    10, Px(3), Px(6)),
       [plain EXCEPT !.player.y = Px(300), !.player.vy = Px(-5),
                     !.player.hasJetpack = TRUE, !.player.jetpackFuel = 2,
                     !.player.isInvincible = TRUE,
                     !.player.invincibleTimer = 3,
                     !.player.hasShield = TRUE,
                     !.player.shieldTimer = Sec(4)] }

\* A session in its running state, a frame callback pending.
EngineInit ==
  /\ now = 0
  /\ store = NoItem
  /\ LedgerIdle
  /\ mounted = TRUE
  /\ isRunning = TRUE
  /\ gameOver = FALSE
  /\ discountInfo = NoData
  /\ s = resetState
  /\ animationRef = "pending"
  /\ orphans = 0
  /\ isMobile = TRUE
  /\ frames = 0
  /\ runCalls = 0
  /\ props = [onGameOver |-> TRUE]
  /\ ended = NoEnd
  /\ exited = NoExit
  /\ AuthIdle
  /\ CalcIdle
  /\ GuessIdle
  /\ w \in Scenes
  /\ probe = NoProbe
  /\ steps = 0
  /\ inputs = 0
  /\ event = NoEvent

EngineNext ==
  \/ \E rnd \in RandomDraws : gameLoopStep(rnd)
  \/ \E key \in {"ArrowLeft", "ArrowRight"} : handleKeyDown(key)
  \/ \E key \in {"ArrowLeft", "ArrowRight"} : handleKeyUp(key)
  \/ \E direction \in {"left", "right"} : handlePointerStart(direction)
  \/ handlePointerEnd
  \/ \E layout \in Layouts : startGameWorld(layout)

SpecEngine == EngineInit /\ [][EngineNext]_vars

\* ------------------------------------------------------ an endless climb
\* The platform field under unbounded scrolling.  The player is kept rising
\* at the scroll threshold at world.climb per frame (so no step lands on a
\* platform and every step scrolls the field by that length); what the
\* later life of the platforms does not depend on is folded away: the score
\* is not kept, and a collapse timer past the threshold, which the loop
\* never reads otherwise, is held at the first value past it.
Fold(world) ==
  [world EXCEPT
     !.player = [NewPlayer(world.W, world.H) EXCEPT
                   !.y = world.scrollThreshold, !.vy = -world.climb],
     !.score = 0,
     !.platforms = [i \in 1 .. Len(world.platforms) |->
                      [world.platforms[i] EXCEPT
                         !.disappearTimer = Min2(@, Sec(1) + 1)]]]

\* Climbing speeds: a slow rise and the rocket boost's 18 pixels per frame.
ClimbSpeeds == {Px(5), Px(18)}

\* What the platforms recycled during the climb become: plain ones, or
\* breakable ones.
ClimbDraws == {Draw(FALSE, "shield", 1), Draw(TRUE, "shield", 4)}

\* The worlds the climb starts from: a fresh one, whose three disappearing
\* platforms have not been landed on, and one whose breakable platform was
\* just hit.
ClimbWorlds ==
  LET mixed == GameState("mixed")
      hit == [mixed EXCEPT !.platforms[9].y = Gone]
  IN { Fold([W |-> base.W, H |-> base.H, player |-> base.player,
             platforms |-> base.platforms, powerUps |-> base.powerUps,
             scrollThreshold |-> base.scrollThreshold, score |-> base.score,
             climb |-> speed, draw |-> rnd]) :
         base \in {mixed, hit}, speed \in ClimbSpeeds, rnd \in ClimbDraws }

\* A display refresh with a callback pending: the browser runs the callback.
\* In the climb, frames holds the parity of the refreshes.
Refresh ==
  /\ mounted
  /\ animationRef = "pending"
  /\ frames' = 1 - frames

\* One gameLoop step of the climb.
ClimbStep ==
  /\ Refresh
  /\ \E r \in {Advance(w, w.draw)} : w' = Fold(r.world)
  /\ UNCHANGED <<now, ledgerVars, mounted, isRunning, gameOver, discountInfo,
                 s, animationRef, orphans, isMobile, runCalls, props, ended,
                 exited, authVars, calcVars, guessVars, probe, steps, inputs, event>>

ClimbInit ==
  /\ now = 0
  /\ store = NoItem
  /\ LedgerIdle
  /\ mounted = TRUE
  /\ isRunning = TRUE
  /\ gameOver = FALSE
  /\ discountInfo = NoData
  /\ s = resetState
  /\ animationRef = "pending"
  /\ orphans = 0
  /\ isMobile = TRUE
  /\ frames = 0
  /\ runCalls = 0
  /\ props = [onGameOver |-> TRUE]
  /\ ended = NoEnd
  /\ exited = NoExit
  /\ AuthIdle
  /\ CalcIdle
  /\ GuessIdle
  /\ w \in ClimbWorlds
  /\ probe = NoProbe
  /\ steps = 0
  /\ inputs = 0
  /\ event = NoEvent

ClimbNext == ClimbStep

\* requestAnimationFrame: the display keeps refreshing, and a pending
\* callback runs at the next refresh.
SpecClimb == ClimbInit /\ [][ClimbNext]_vars /\ WF_frames(Refresh)

\* ================================================= damaged stored content
\* Contents of localStorage["user_discount"] that updateDiscount did not
\* write: text that is no JSON, the text "null", the text "{}", and objects
\* with a member missing, null or of the wrong kind.
DamagedItems ==
  { Unparseable,
    JsonNull,
    JsonObject(Undefined, Undefined, Undefined, Undefined),
    JsonObject(Num(500 * ScoreUnit), Num(5), Num(5), Undefined),
    JsonObject(Num(500 * ScoreUnit), Num(5), Num(5), NotADate),
    JsonObject(Undefined, Num(5), Num(5), Iso(DISCOUNT_CONFIG.discountValidityDays)),
    JsonObject(Null, Num(5), Num(5), Iso(DISCOUNT_CONFIG.discountValidityDays)),
    JsonObject(Num(500 * ScoreUnit), Num(5), Undefined,
               Iso(DISCOUNT_CONFIG.discountValidityDays)),
    JsonObject(Num(500 * ScoreUnit), Undefined, Null,
               Iso(DISCOUNT_CONFIG.discountValidityDays)) }

\* The item is not the text of a record with a date and two numbers.
Damaged(item) ==
  \/ item.kind \in {"garbage", "null"}
  \/ /\ item.kind = "object"
     /\ \/ item.expirationDate.t /= "iso"
        \/ item.pointsEarned.t /= "num"
        \/ item.totalDiscount.t /= "num"

DamagedInit ==
  /\ now = 0
  /\ store \in DamagedItems
  /\ LedgerIdle
  /\ GameIdle
  /\ AuthIdle
  /\ CalcIdle
  /\ GuessIdle
  /\ EngineIdle

DamagedNext ==
  \/ \E score \in {0, 1500, 1502} : GameOverCredit(score)
  \/ calculateGuessDiscount
  \/ Tick(DISCOUNT_CONFIG.discountValidityDays + 1)

SpecDamaged == DamagedInit /\ [][DamagedNext]_vars

\* ======================================== the ledger's functions as called
\* Scores a caller can hand to updateDiscount, in ScoreUnit-ths of a point:
\* the function takes any number; negative ones are among them.
ApiPoints == {-250 * ScoreUnit, -1, 0, 120 * ScoreUnit, 300 * ScoreUnit}

\* updateDiscount(newPoints, source) called directly.
updateDiscountCall(newPoints, source) ==
  /\ calls < MaxCalls
  /\ Credit(Num(newPoints), source)
  /\ UNCHANGED <<now, gameVars, authVars, calcVars, guessVars, engineVars>>

ApiNext ==
  \/ \E newPoints \in ApiPoints, source \in {"jump", "guess"} :
       updateDiscountCall(newPoints, source)
  \/ Tick(DISCOUNT_CONFIG.discountValidityDays + 1)

SpecApi == Init /\ [][ApiNext]_vars

\* ===================================================== calculateDiscount
\* Scores (fixed-point) and configurations calculateDiscount is applied to.
CalcScores == (0 .. MaxCalcScore) \cup FinalScores

CalcConfigs ==
  {DISCOUNT_CONFIG} \cup
  [pointsPerPercent : 1 .. MaxPerPercent, maxDiscount : {1, 3},
   discountValidityDays : {DISCOUNT_CONFIG.discountValidityDays}]

CalcInit ==
  /\ now = 0
  /\ store = NoItem
  /\ LedgerIdle
  /\ GameIdle
  /\ AuthIdle
  /\ calcIn \in {c \in [lo : CalcScores, hi : CalcScores, config : CalcConfigs] :
                   c.lo <= c.hi}
  /\ calcOut = NoResult
  /\ GuessIdle
  /\ EngineIdle

\* calculateDiscount applied to the two scores.
Calculate ==
  /\ ~calcOut.done
  /\ calcOut' = [done |-> TRUE,
                 lo |-> calculateDiscount(Num(calcIn.lo), calcIn.config, now),
                 hi |-> calculateDiscount(Num(calcIn.hi), calcIn.config, now)]
  /\ UNCHANGED <<now, ledgerVars, gameVars, authVars, calcIn, guessVars,
                 engineVars>>

CalcNext == Calculate

SpecCalc == CalcInit /\ [][CalcNext]_vars

\* ========================================================== GuessTheWord
MOCK_GAME_DATA ==
  [wordLength |-> 5, correctAnswer |-> "PIANO", hasBeenGuessedToday |-> FALSE,
   maxAttempts |-> 3, discountAmount |-> 5]

\* What the input holds when a guess is submitted, after trim().toUpperCase().
Guesses == {"", "PIAN", "PIANO", "HOUSE"}

\* GamesPage sets showGuess: GuessTheWord mounts with its initial state, and
\* its effect looks up the key of the day it was mounted on.
OpenGuess ==
  /\ ~guessGame.open
  /\ ~mounted
  /\ guessGame' = [open |-> TRUE,
                   attemptsRemaining |-> MOCK_GAME_DATA.maxAttempts,
                   gameDate |-> now,
                   hasGuessedCorrectly |-> FALSE,
                   hasAlreadyPlayedToday |-> now \in guessPlayed]
  /\ UNCHANGED <<now, ledgerVars, gameVars, authVars, calcVars, guessPlayed,
                 guessLog, engineVars>>

\* onExit: GamesPage clears showGuess and GuessTheWord unmounts.
ExitGuess ==
  /\ guessGame.open
  /\ guessGame' = NoGuessGame
  /\ UNCHANGED <<now, ledgerVars, gameVars, authVars, calcVars, guessPlayed,
                 guessLog, engineVars>>

\* The guesses taken on the day of this one, this one included.
Logged == IF guessLog.day = now THEN guessLog.count + 1 ELSE 1

\* handleGuess.  The input and the button are rendered only when
\* hasAlreadyPlayedToday is false.  gameState.hasBeenGuessedToday is false
\* whenever the correct branch is reached (it is set together with
\* hasGuessedCorrectly), so calculateGuessDiscount is called with true.
handleGuess(guess) ==
  /\ guessGame.open
  /\ ~guessGame.hasAlreadyPlayedToday
  /\ guess /= ""
  /\ Len(guess) = MOCK_GAME_DATA.wordLength
  /\ ~guessGame.hasGuessedCorrectly
  /\ guessGame.attemptsRemaining > 0
  /\ Logged <= MaxGuesses
  /\ LET newAttemptsRemaining == guessGame.attemptsRemaining - 1
     IN IF guess = MOCK_GAME_DATA.correctAnswer
          THEN /\ calls < MaxCalls
               /\ guessGame' =
                    [guessGame EXCEPT !.hasGuessedCorrectly = TRUE,
                                      !.attemptsRemaining = newAttemptsRemaining]
               /\ guessPlayed' = guessPlayed \cup {guessGame.gameDate}
               /\ Credit(Num(0), "guess")
          ELSE /\ guessGame' =
                    [guessGame EXCEPT !.attemptsRemaining = newAttemptsRemaining]
               /\ guessPlayed' = IF newAttemptsRemaining > 0
                                   THEN guessPlayed
                                   ELSE guessPlayed \cup {guessGame.gameDate}
               /\ UNCHANGED ledgerVars
  /\ guessLog' = [day |-> now, count |-> Logged]
  /\ UNCHANGED <<now, gameVars, authVars, calcVars, engineVars>>

GuessNext ==
  \/ OpenGuess
  \/ \E guess \in Guesses : handleGuess(guess)
  \/ ExitGuess
  \/ Tick(DISCOUNT_CONFIG.discountValidityDays + 1)

SpecGuess == Init /\ [][GuessNext]_vars

\* ========================================================== AuthProvider
\* The accounts that sign up and log in; the email of an account is modelled
\* by its username, and a login is made with the account's own password.
Accounts == {"alice", "bob"}

\* The percents passed to addDiscountPercent (whole percents, which
\* Math.round((current + percent) * 100) / 100 leaves as they are).
Percents == {0, 30, 60}

\* signup: a taken username or email is refused; else the account is stored
\* and logged in with an empty discount.
signup(username) ==
  /\ username \notin users
  /\ users' = users \cup {username}
  /\ auth' = [user |-> [username |-> username, email |-> username],
              token |-> TRUE,
              discount |-> [amount |-> Num(0), expiresAt |-> Null]]
  /\ earners' = {}
  /\ UNCHANGED <<now, ledgerVars, gameVars, calcVars, guessVars, engineVars>>

\* login with valid credentials: the new state takes auth.discount as it is.
login(username) ==
  /\ username \in users
  /\ auth' = [user |-> [username |-> username, email |-> username],
              token |-> TRUE,
              discount |-> auth.discount]
  /\ UNCHANGED <<now, ledgerVars, gameVars, users, earners, calcVars,
                 guessVars, engineVars>>

logout ==
  /\ auth' = [user |-> NoUser, token |-> FALSE,
              discount |-> [amount |-> Num(0), expiresAt |-> Null]]
  /\ earners' = {}
  /\ UNCHANGED <<now, ledgerVars, gameVars, users, calcVars, guessVars,
                 engineVars>>

\* addDiscountPercent(percent) with extendDays = 7: nothing without a user
\* or at 100 percent; else the percent is added up to 100 and the expiration
\* is set to seven days from now.
addDiscountPercent(percent) ==
  /\ auth.user /= NoUser
  /\ auth.discount.amount.v < 100
  /\ auth' = [auth EXCEPT
                !.discount = [amount |-> Num(Min2(100, @.amount.v + percent)),
                              expiresAt |-> Iso(now + 7)]]
  /\ earners' = earners \cup {auth.user.username}
  /\ UNCHANGED <<now, ledgerVars, gameVars, users, calcVars, guessVars,
                 engineVars>>

AuthNext ==
  \/ \E username \in Accounts : signup(username)
  \/ \E username \in Accounts : login(username)
  \/ logout
  \/ \E percent \in Percents : addDiscountPercent(percent)
  \/ Tick(DISCOUNT_CONFIG.discountValidityDays + 1)

SpecAuth == Init /\ [][AuthNext]_vars

\* ================================================================ cabinet
\* A member of the value useAuth() returns, as destructuring reads it: the
\* value has the members auth, signup, login, logout, requireAuthNavigate,
\* addDiscountPercent, addDiscountFromPoints and resetDiscount; every other
\* name reads undefined.
UseAuth(name) ==
  LET value == [auth |-> auth]
  IN IF name \in DOMAIN value THEN value[name] ELSE Undefined

\* JavaScript truthiness of a member.
Truthy(x) == x.t \notin {"undefined", "null", "nan"}

\* What CabinetPage renders in its discount block at time t.
CabinetPage(t) ==
  LET discount == UseAuth("discount")
      expiresAt == UseAuth("expiresAt")
      daysLeft == IF Truthy(expiresAt) /\ NewDate(expiresAt).t = "date"
                       /\ NewDate(expiresAt).v > t
                    THEN NewDate(expiresAt).v - t
                    ELSE 0
      discountExpired == ~Truthy(expiresAt) \/ daysLeft <= 0
  IN IF discountExpired
       THEN [available |-> FALSE, discount |-> Undefined, expires |-> Undefined]
       ELSE [available |-> TRUE, discount |-> discount, expires |-> expiresAt]

\* What the game shows of discountInfo (header chip and canvas line
\* "Discount: N%"): nothing when discountInfo is null, else its totalDiscount.
GameDiscountShown ==
  IF discountInfo.some THEN discountInfo.totalDiscount ELSE Num(0)

\* ================================================================== claims
\* Whole percentage that a fixed-point number of points is worth:
\* min(floor(points / 100), 100).
PercentOf(units) == Min2(units \div (ScoreUnit * 100), 100)

\* C1: after any sequence of updateDiscount calls and clock advances the
\* persisted record has a numeric totalDiscount with 0 <= totalDiscount <= 100.
C1_TotalDiscountInRange ==
  store.kind = "object" =>
    /\ store.totalDiscount.t = "num"
    /\ 0 <= store.totalDiscount.v
    /\ store.totalDiscount.v <= 100

\* C1 witness: a run worth more than 100 percent has been credited and the
\* stored percentage stands at 100.
C1_Witness ==
  /\ last.source = "jump"
  /\ last.points.v \div (ScoreUnit * 100) > 100
  /\ store.kind = "object"
  /\ store.totalDiscount = Num(100)

\* C2: a call that finds the stored record at maxDiscount and unexpired
\* returns a record with totalDiscount = maxDiscount and the pointsEarned and
\* expiration of the cap-reaching call, and leaves the stored item as it was.
C2_CapLocksRecord ==
  (last.source /= "none" /\ Locked(last.pre, last.at)) =>
    /\ store = last.pre
    /\ last.ret.some
    /\ last.ret.totalDiscount = Num(DISCOUNT_CONFIG.maxDiscount)
    /\ capRet.some
    /\ last.ret.pointsEarned = capRet.pointsEarned
    /\ last.ret.expirationDate = capRet.expirationDate

\* C2 witness: a run with points is credited on a later day than the one on
\* which the cap was reached, while the capped record is still unexpired.
C2_Witness ==
  /\ last.source = "jump"
  /\ last.points.v > 0
  /\ Locked(last.pre, last.at)
  /\ capRet.some
  /\ last.at + DISCOUNT_CONFIG.discountValidityDays > capRet.expirationDate.v

C5_FreshAfterExpiry ==
  (last.source = "jump" /\ Expired(last.pre, last.at)) =>
    LET floored == (last.points.v \div ScoreUnit) * ScoreUnit
    IN /\ last.ret.some
       /\ last.ret.pointsEarned = Num(floored)
       /\ last.ret.totalDiscount = Num(PercentOf(last.points.v))
       /\ store.kind = "object"
       /\ store.pointsEarned = Num(floored)
       /\ store.totalDiscount = Num(PercentOf(last.points.v))
       /\ store.expirationDate =
            Iso(last.at + DISCOUNT_CONFIG.discountValidityDays)

\* C5 witness: a run with points is credited over an expired record that was
\* at the cap.
C5_Witness ==
  /\ last.source = "jump"
  /\ last.points.v > 0
  /\ Expired(last.pre, last.at)
  /\ last.pre.totalDiscount = Num(DISCOUNT_CONFIG.maxDiscount)

\* C9: the record returned for the first correct guess of the day has
\* totalDiscount >= 5, whatever the stored record was.
C9_GuessWinGrantsFive ==
  last.source = "guess" =>
    /\ last.ret.some
    /\ JsGe(last.ret.totalDiscount, Num(5))

\* C3: a consumer that reads a stored record whose expiration lies in the
\* past presents no discount: when the game mounts over an expired record,
\* the discount it shows is 0.
C3_ExpiredReadShowsNoDiscount ==
  [][(~mounted /\ mounted' /\ Expired(store, now))
       => GameDiscountShown' = Num(0)]_vars

\* C6: for every score >= 0 and pointsPerPercent >= 1, calculateDiscount
\* returns pointsEarned = floor(score) and discountPercent = totalDiscount =
\* min(floor(score / pointsPerPercent), maxDiscount), and a larger score
\* never gives a smaller discountPercent.
C6_CalculateDiscount ==
  calcOut.done =>
    LET per == ScoreUnit * calcIn.config.pointsPerPercent
        cap == calcIn.config.maxDiscount
    IN /\ calcOut.lo.pointsEarned = Num((calcIn.lo \div ScoreUnit) * ScoreUnit)
       /\ calcOut.hi.pointsEarned = Num((calcIn.hi \div ScoreUnit) * ScoreUnit)
       /\ calcOut.lo.discountPercent = Num(Min2(calcIn.lo \div per, cap))
       /\ calcOut.hi.discountPercent = Num(Min2(calcIn.hi \div per, cap))
       /\ calcOut.lo.totalDiscount = calcOut.lo.discountPercent
       /\ calcOut.hi.totalDiscount = calcOut.hi.discountPercent
       /\ calcOut.lo.discountPercent.v <= calcOut.hi.discountPercent.v

\* C6 witness: a score with a fraction below the cap and a larger score
\* worth more than the cap have been evaluated.
C6_Witness ==
  /\ calcOut.done
  /\ calcIn.lo % ScoreUnit /= 0
  /\ calcIn.lo < calcIn.hi
  /\ calcOut.lo.discountPercent.v < calcIn.config.maxDiscount
  /\ calcIn.hi \div (ScoreUnit * calcIn.config.pointsPerPercent)
       > calcIn.config.maxDiscount
  /\ calcOut.hi.discountPercent = Num(calcIn.config.maxDiscount)

\* C7: a run that ends in game over has called updateDiscount exactly once,
\* with floor(final score) and source 'jump', in the step that marked the
\* player dead (no call before it), and the session is then in gameOver and
\* not running.
C7_GameOverCreditsOnce ==
  mounted =>
    IF s.isDead
      THEN /\ runCalls = 1
           /\ last.source = "jump"
           /\ last.points = Num((s.score \div ScoreUnit) * ScoreUnit)
           /\ gameOver
           /\ ~isRunning
      ELSE runCalls = 0

\* C7 witness: a run has ended with a final score that has a fraction and
\* is worth at least one point.
C7_Witness ==
  /\ mounted
  /\ s.isDead
  /\ s.score % ScoreUnit /= 0
  /\ last.points.v >= ScoreUnit
  /\ runCalls = 1

\* C8: after a run has ended and updateDiscount has persisted an unexpired
\* record with totalDiscount > 0, the cabinet shows that percentage and
\* that expiry, not "No discount available".
C8_CabinetShowsStoredRecord ==
  (/\ last.source = "jump"
   /\ store.kind = "object"
   /\ ~Expired(store, now)
   /\ JsGe(store.totalDiscount, Num(1))
   /\ auth.user /= NoUser) =>
    /\ CabinetPage(now).available
    /\ CabinetPage(now).discount = store.totalDiscount
    /\ CabinetPage(now).expires = store.expirationDate

\* C10: stored content that is unparseable or lacks valid fields is treated
\* as Empty: updateDiscount returns and persists what it returns and
\* persists when there is no item.
C10_DamagedTreatedAsEmpty ==
  (last.source /= "none" /\ Damaged(last.pre)) =>
    /\ last.ret = updateDiscount(NoItem, last.points, last.source, last.at).ret
    /\ store = updateDiscount(NoItem, last.points, last.source, last.at).item

\* C11: a negative score handed to updateDiscount is clamped before use: the
\* persisted record has pointsEarned >= 0 and totalDiscount >= 0, and a merge
\* into an unexpired record never lowers pointsEarned.
C11_NegativeScoreClamped ==
  (last.source /= "none" /\ store.kind = "object") =>
    /\ JsGe(store.pointsEarned, Num(0))
    /\ JsGe(store.totalDiscount, Num(0))
    /\ (last.pre.kind = "object" /\ ~Expired(last.pre, last.at))
         => JsGe(store.pointsEarned, last.pre.pointsEarned)

\* C12 as stated: in a step whose collision test finds the falling player
\* (vy > 0) with the bottom edge of its box in [pl.y, pl.y + pl.height) of a
\* platform it overlaps horizontally, the step ends with vy < 0 and a
\* strictly larger score.
C12_LandingBounces ==
  (probe.stepped /\ probe.vyTest > 0 /\ probe.inRegion) =>
    /\ w.player.vy < 0
    /\ w.score > probe.before.score

\* C12 amended: the same with the bottom edge strictly below the platform's
\* top edge, that is in (pl.y, pl.y + pl.height).
C12_LandingBouncesInside ==
  (probe.stepped /\ probe.vyTest > 0 /\ probe.inside) =>
    /\ probe.landings = 1
    /\ w.player.vy < 0
    /\ w.score > probe.before.score

\* C12 witness: a falling player has landed and left upward.
C12_Witness ==
  /\ probe.stepped
  /\ probe.vyTest > 0
  /\ probe.inside
  /\ probe.landings = 1
  /\ w.player.vy < 0

\* C13: in a step whose collision tests find the player not falling
\* (vy <= 0) with its bottom edge in the region of a platform it overlaps,
\* no bounce happens: the platform loop leaves vy as it was and adds no
\* landing bonus to the score.
C13_RisingNeverBounces ==
  (probe.stepped /\ probe.vyTest <= 0 /\ probe.inRegion) =>
    /\ probe.landings = 0
    /\ probe.vyLoop = probe.vyTest
    /\ probe.landingBonus = 0

\* C13 witness: the player has risen through the region of a platform.
C13_Witness ==
  /\ probe.stepped
  /\ probe.vyTest < 0
  /\ probe.inRegion
  /\ w.player.y < probe.before.player.y

\* C14: a player who holds a shield when the termination check finds
\* y > H + 60 is not terminated: isDead stays false, hasShield is false,
\* isInvincible true, y lies in [0, H), and a frame callback is pending.
C14_ShieldSaves ==
  (probe.stepped /\ steps > 0 /\ probe.below /\ probe.shieldAtCheck) =>
    /\ ~w.player.isDead
    /\ ~w.player.hasShield
    /\ w.player.isInvincible
    /\ 0 <= w.player.y
    /\ w.player.y < w.H
    /\ isRunning
    /\ ~gameOver
    /\ animationRef = "pending"

\* C14 witness: the shield has just saved a player who was below the field.
C14_Witness ==
  /\ probe.stepped
  /\ probe.below
  /\ probe.shieldAtCheck
  /\ probe.yAtCheck > w.H + Px(60)
  /\ probe.before.player.hasShield
  /\ ~w.player.hasShield

\* C16: after any number of steps the platform array has the length it was
\* constructed with.
C16_FixedPopulation ==
  w /= NoWorld => Len(w.platforms) = platformCount + 1

\* C16 witness: a step has scrolled the world and recycled a platform, and
\* a platform is out of the field after a break or a collapse.
C16_Witness ==
  /\ probe.stepped
  /\ probe.scroll > 0
  /\ probe.recycled > 0
  /\ \E i \in 1 .. Len(w.platforms) : w.platforms[i].y = Gone

\* C18: a step in which x after the horizontal move exceeds the world width
\* leaves x = -player.width, one in which it is below -player.width leaves
\* x = width, and after every step -player.width <= x <= width.
C18_HorizontalWrap ==
  probe.stepped =>
    /\ probe.xMoved > w.W => w.player.x = -playerSize
    /\ probe.xMoved < -playerSize => w.player.x = w.W
    /\ -playerSize <= w.player.x
    /\ w.player.x <= w.W

\* C18 witness: the player has left the field on the right and come back
\* on the left.
C18_Witness ==
  /\ probe.stepped
  /\ probe.xMoved > w.W
  /\ w.player.x = -playerSize

\* C15: when the termination check of a step finds the player below
\* H + 60 without a shield, the player is dead, the game-over branch has run
\* once on this world, the onGameOver callback (when one was passed) has
\* been called once with the floored final score, no frame callback is
\* scheduled, and no step has run on the world since.
C15_TerminationEndsWorld ==
  mounted =>
    /\ (ended.below /\ ~ended.shield) => s.isDead
    /\ s.isDead =>
         /\ ended.below /\ ~ended.shield
         /\ ended.count = 1
         /\ ended.calls = (IF props.onGameOver THEN 1 ELSE 0)
         /\ props.onGameOver => ended.score = finalScore(s.score)
         /\ animationRef = "null"
         /\ orphans = 0
         /\ frames = ended.frame

\* C15 witness: a run of several steps has ended below the view without a
\* shield, with a final score that has a fraction, and the callback passed
\* to the component was called.
C15_Witness ==
  /\ mounted
  /\ s.isDead
  /\ ended.below /\ ~ended.shield
  /\ props.onGameOver
  /\ ended.calls = 1
  /\ s.score % ScoreUnit /= 0
  /\ ended.score.v = (s.score \div ScoreUnit) * ScoreUnit
  /\ ended.frame > 1

\* C17: after an exit from the idle or the running state the stored
\* discount item is the one the exit found: the abandoned run adds no
\* points and the expiration date is not renewed.
C17_ExitKeepsRecord ==
  exited.from \in {"idle", "running"} => store = exited.store

\* C17 witness: a running game with points on the board was left while an
\* earlier run's record was stored.
C17_Witness ==
  /\ ~mounted
  /\ exited.from = "running"
  /\ exited.score >= ScoreUnit
  /\ exited.store.kind = "object"
  /\ store = exited.store

\* C19: while the view is mounted, the session running and the player
\* alive, a gameLoop callback is scheduled.
C19_FramePendingWhileRunning ==
  (mounted /\ isRunning /\ ~s.isDead) =>
    (animationRef = "pending" \/ orphans > 0)

\* C20: an updateDiscount call that finds an unexpired record leaves a
\* totalDiscount that is not below the one it found, whatever the sources
\* of this call and of the calls before it.
C20_TotalNeverDecreases ==
  (last.source /= "none" /\ last.pre.kind = "object"
     /\ ~Expired(last.pre, last.at)) =>
    JsGe(store.totalDiscount, last.pre.totalDiscount)

\* Platform i is out of play: far above the field, where neither a landing
\* nor the view reaches it (a recycled platform enters at y > -70).
OutOfPlay(i) == w.platforms[i].y < Px(-100)

\* C21: under unbounded scrolling every platform that is out of play comes
\* back into play; none stays out forever, that is, each platform is in
\* play again and again.
C21_OutOfPlayComesBack ==
  \A i \in 1 .. platformCount + 1 : []<>(~OutOfPlay(i))

\* C22: at any time at most one gameLoop callback is scheduled, whether
\* animationRef names it or not, so one step runs per display refresh.
C22_OneFramePending ==
  (IF animationRef = "pending" THEN 1 ELSE 0) + orphans <= 1

\* C22 witness: a second run was started with Play Again or the space key
\* after a game over, and its callback has rescheduled itself.
C22_Witness ==
  /\ mounted
  /\ isRunning
  /\ calls >= 1
  /\ frames >= 1
  /\ animationRef = "pending"
  /\ orphans = 0

\* C23: an updateDiscount call that merges into an unexpired record below
\* the cap returns and stores the expiration now + discountValidityDays,
\* also when the merge reaches maxDiscount or adds no percent.
C23_MergeExtendsExpiration ==
  (/\ last.source /= "none"
   /\ last.pre.kind = "object"
   /\ ~Expired(last.pre, last.at)
   /\ ~Locked(last.pre, last.at)) =>
    /\ last.ret.expirationDate =
         Date(last.at + DISCOUNT_CONFIG.discountValidityDays)
    /\ loadDiscount(store).expirationDate =
         Date(last.at + DISCOUNT_CONFIG.discountValidityDays)

\* C23 witness: a merge on a later day than the record's first call has
\* brought the record to maxDiscount, and the expiration moved.
C23_Witness ==
  /\ last.source = "jump"
  /\ last.pre.kind = "object"
  /\ ~Expired(last.pre, last.at)
  /\ ~Locked(last.pre, last.at)
  /\ last.at > 0
  /\ last.ret.totalDiscount = Num(DISCOUNT_CONFIG.maxDiscount)
  /\ loadDiscount(last.pre).expirationDate /= last.ret.expirationDate
  /\ loadDiscount(store).expirationDate = last.ret.expirationDate

\* C24: a step leaves no platform that was not recycled in it with a smaller
\* collapse timer than it had, and a disappearing platform whose timer is
\* past the 1-second threshold has been removed from the field.
C24_CollapseTimerMonotone ==
  probe.stepped =>
    /\ probe.timerDrops = {}
    /\ \A i \in 1 .. Len(w.platforms) :
         (w.platforms[i].isDisappearing
            /\ w.platforms[i].disappearTimer > Sec(1)) =>
           w.platforms[i].y = Gone

\* C25: a step of the program that does not start a run leaves the score of
\* the world at least as large as it was, and a step that starts a run
\* leaves it 0: the score is reset by startGame and by nothing else.
C25_ScoreMonotone ==
  [][IF ~isRunning /\ isRunning' THEN w'.score = 0
     ELSE w'.score >= w.score]_vars

\* C25 witness: after a game over a second run was started, and a step of it
\* has added a landing bonus to the score.
C25_Witness ==
  /\ calls >= 1
  /\ isRunning
  /\ probe.stepped
  /\ probe.landings > 0
  /\ w.score > probe.before.score

\* C26: at the end of every step hasShield implies shieldTimer > 0,
\* isInvincible implies invincibleTimer > 0 and hasJetpack implies
\* jetpackFuel > 0.
C26_FlagsAgreeWithTimers ==
  probe.stepped =>
    /\ w.player.hasShield => w.player.shieldTimer > 0
    /\ w.player.isInvincible => w.player.invincibleTimer > 0
    /\ w.player.hasJetpack => w.player.jetpackFuel > 0

\* C26 witness: the step in which the jetpack fuel ran out has cleared
\* hasJetpack, while the shield and the invincibility, whose timers are
\* still running, are kept.
C26_Witness ==
  /\ probe.stepped
  /\ probe.before.player.hasJetpack
  /\ ~w.player.hasJetpack
  /\ w.player.jetpackFuel <= 0
  /\ w.player.hasShield /\ w.player.shieldTimer > 0
  /\ w.player.isInvincible /\ w.player.invincibleTimer > 0

C28_PickedUpOnce ==
  probe.stepped => (probe.stale = 0 /\ probe.repicks = 0)

\* C28 witness: the player picked up a shield power-up some steps ago (its
\* timer has run since), the last step picked up nothing, and the list of
\* power-ups is empty.
C28_Witness ==
  /\ probe.stepped
  /\ probe.pickups = 0
  /\ w.player.hasShield
  /\ w.player.shieldTimer > Sec(9)
  /\ w.player.shieldTimer < Sec(10) - 1
  /\ w.powerUps = <<>>
\* C29: a player takes at most maxAttempts guesses on one calendar day,
\* however often the game is left and reopened on that day.
C29_AttemptsPerDay == guessLog.count <= MOCK_GAME_DATA.maxAttempts
\* C30: the discount of the session of a logged-in user was earned by no
\* other account: whoever logs in holds a discount that only their own
\* addDiscountPercent calls have made.
C30_DiscountOfOwnAccount ==
  auth.user /= NoUser => earners \subseteq {auth.user.username}

====
